---- MODULE Spec2Model ----
(***************************************************************************)
(* Lowering of the XLA HLO dialect to the Standard dialect                  *)
(* (tensorflow/compiler/mlir/xla/transforms/legalize_to_standard.cc).       *)
(*                                                                          *)
(* The function body is a fixed set of operation slots.  A slot keeps its   *)
(* identity when its operation is replaced: replaceOpWithNewOp redirects    *)
(* every use of the old result to the new operation, so the new operation   *)
(* sits where the old one sat and inherits its uses.                        *)
(***************************************************************************)
EXTENDS Integers, Sequences, FiniteSets, TLC

\* ------------------------------------------------------------------ bounds
NumOps == 2
MaxRank == 2
MaxDimSize == 3
MaxRuns == 2
MaxSweeps == 3

VARIABLES
  body,          \* slot -> operation currently in the function body
  body0,         \* the function body the pass was first run on (never changes)
  pc,            \* "scanning" | "converged" | "crashed"
  visited,       \* slots already offered to the patterns in this sweep
  changed,       \* a replacement occurred during this sweep
  sweeps,        \* completed sweeps that made a replacement, this run
  replacements,  \* replacements performed, this run
  runs,          \* number of runOnFunction invocations started
  divByZero      \* an integer division by zero has been executed

vars == <<body, body0, pc, visited, changed, sweeps, replacements, runs, divByZero>>

Slots == 1..NumOps

\* ------------------------------------------------------------- data model
IntWidths == {1, 2, 8}

IntegerType == [kind : {"int"}, width : IntWidths]

FloatType == {[kind |-> "float", width |-> 16]}

ComplexType == {[kind |-> "complex", width |-> 64]}

NoType == [kind |-> "none", width |-> 0]

I1 == [kind |-> "int", width |-> 1]

Shapes == UNION {[1..r -> 0..MaxDimSize] : r \in 1..MaxRank}

CmpShapes == {<<2>>, <<2, 3>>}

Directions == {"EQ", "NE", "LT", "LE", "GT", "GE"}

OtherDirections == {"XX"}

\* every result has at least one user
UseSets == {{"return"}, {"return", "call"}}

NoValue == [name |-> "", elem |-> NoType, shape |-> <<>>]

CompareOp(lhs, rhs, dir, uses) ==
  [kind |-> "xla_hlo.compare", lhs |-> lhs, rhs |-> rhs,
   comparison_direction |-> dir, predicate |-> "",
   elem |-> I1, shape |-> lhs.shape, iota_dimension |-> 0,
   values |-> <<>>, uses |-> uses]

IotaOp(elem, shape, dimension, uses) ==
  [kind |-> "xla_hlo.iota", lhs |-> NoValue, rhs |-> NoValue,
   comparison_direction |-> "", predicate |-> "",
   elem |-> elem, shape |-> shape, iota_dimension |-> dimension,
   values |-> <<>>, uses |-> uses]

CmpIOp(predicate, lhs, rhs, op) ==
  [kind |-> "std.cmpi", lhs |-> lhs, rhs |-> rhs,
   comparison_direction |-> "", predicate |-> predicate,
   elem |-> I1, shape |-> lhs.shape, iota_dimension |-> 0,
   values |-> <<>>, uses |-> op.uses]

CmpFOp(predicate, lhs, rhs, op) ==
  [kind |-> "std.cmpf", lhs |-> lhs, rhs |-> rhs,
   comparison_direction |-> "", predicate |-> predicate,
   elem |-> I1, shape |-> lhs.shape, iota_dimension |-> 0,
   values |-> <<>>, uses |-> op.uses]

ConstantOp(output_type, values, op) ==
  [kind |-> "std.constant", lhs |-> NoValue, rhs |-> NoValue,
   comparison_direction |-> "", predicate |-> "",
   elem |-> output_type.elem, shape |-> output_type.shape, iota_dimension |-> 0,
   values |-> values, uses |-> op.uses]

\* ----------------------------------------------------------- match results
matchFailure == [matched |-> FALSE, ub |-> FALSE, op |-> {}]

matchSuccess(newOp) == [matched |-> TRUE, ub |-> FALSE, op |-> {newOp}]

\* the rewrite executed an integer division by zero before replacing
matchUndefined(newOp) == [matched |-> TRUE, ub |-> TRUE, op |-> {newOp}]

\* ------------------------------------------------------- CompareIConvert
\* variant: the ordering predicates are the unsigned ones
CmpIPredicateUnsigned(comparison_direction) ==
  CASE comparison_direction = "EQ" -> "eq"
    [] comparison_direction = "NE" -> "ne"
    [] comparison_direction = "LT" -> "ult"
    [] comparison_direction = "LE" -> "ule"
    [] comparison_direction = "GT" -> "ugt"
    [] comparison_direction = "GE" -> "uge"
    [] OTHER -> "None"

CmpIPredicate(comparison_direction) ==
  CASE comparison_direction = "EQ" -> "eq"
    [] comparison_direction = "NE" -> "ne"
    [] comparison_direction = "LT" -> "slt"
    [] comparison_direction = "LE" -> "sle"
    [] comparison_direction = "GT" -> "sgt"
    [] comparison_direction = "GE" -> "sge"
    [] OTHER -> "None"

\* variant: the shape test is missing
CompareIConvertBroadcast(op) ==
  IF op.lhs.elem.kind # "int" \/ op.rhs.elem.kind # "int" THEN matchFailure
  ELSE IF CmpIPredicate(op.comparison_direction) = "None" THEN matchFailure
  ELSE matchSuccess(CmpIOp(CmpIPredicate(op.comparison_direction), op.lhs, op.rhs, op))

\* variant: the pattern keeps state across runs and matches from the second run on
CompareIConvertStateful(op) ==
  IF runs = 1 THEN matchFailure
  ELSE IF op.lhs.shape # op.rhs.shape THEN matchFailure
  ELSE IF op.lhs.elem.kind # "int" \/ op.rhs.elem.kind # "int" THEN matchFailure
  ELSE IF CmpIPredicate(op.comparison_direction) = "None" THEN matchFailure
  ELSE matchSuccess(CmpIOp(CmpIPredicate(op.comparison_direction), op.lhs, op.rhs, op))

CompareIConvert(op) ==
  IF op.lhs.shape # op.rhs.shape THEN matchFailure
  ELSE IF op.lhs.elem.kind # "int" \/ op.rhs.elem.kind # "int" THEN matchFailure
  ELSE IF CmpIPredicate(op.comparison_direction) = "None" THEN matchFailure
  ELSE matchSuccess(CmpIOp(CmpIPredicate(op.comparison_direction), op.lhs, op.rhs, op))

\* ------------------------------------------------------- CompareFConvert
\* variant: the NE case is missing
CmpFPredicateMissingNE(comparison_direction) ==
  CASE comparison_direction = "EQ" -> "OEQ"
    [] comparison_direction = "LT" -> "OLT"
    [] comparison_direction = "LE" -> "OLE"
    [] comparison_direction = "GT" -> "OGT"
    [] comparison_direction = "GE" -> "OGE"
    [] OTHER -> "NumPredicates"

CmpFPredicate(comparison_direction) ==
  CASE comparison_direction = "EQ" -> "OEQ"
    [] comparison_direction = "NE" -> "UNE"
    [] comparison_direction = "LT" -> "OLT"
    [] comparison_direction = "LE" -> "OLE"
    [] comparison_direction = "GT" -> "OGT"
    [] comparison_direction = "GE" -> "OGE"
    [] OTHER -> "NumPredicates"

\* variant: the test for the default predicate is missing
CompareFConvertNoDefault(op) ==
  IF op.lhs.shape # op.rhs.shape THEN matchFailure
  ELSE IF op.lhs.elem.kind # "float" \/ op.rhs.elem.kind # "float" THEN matchFailure
  ELSE matchSuccess(CmpFOp(CmpFPredicate(op.comparison_direction), op.lhs, op.rhs, op))

CompareFConvert(op) ==
  IF op.lhs.shape # op.rhs.shape THEN matchFailure
  ELSE IF op.lhs.elem.kind # "float" \/ op.rhs.elem.kind # "float" THEN matchFailure
  ELSE IF CmpFPredicate(op.comparison_direction) = "NumPredicates" THEN matchFailure
  ELSE matchSuccess(CmpFOp(CmpFPredicate(op.comparison_direction), op.lhs, op.rhs, op))

\* --------------------------------------------------------- ConvertIotaOp
RECURSIVE getNumElementsFrom(_, _)
getNumElementsFrom(shape, i) ==
  IF i > Len(shape) THEN 1 ELSE shape[i] * getNumElementsFrom(shape, i + 1)

getNumElements(shape) == getNumElementsFrom(shape, 1)

\* getDimSize takes a 0-based index
getDimSize(shape, i) == shape[i + 1]

RECURSIVE Pow2(_)
Pow2(n) == IF n = 0 THEN 1 ELSE 2 * Pow2(n - 1)

\* variant: a value that does not fit is clamped to the largest one
APIntSaturating(bitwidth, value) ==
  IF value >= Pow2(bitwidth) THEN Pow2(bitwidth) - 1 ELSE value

\* APInt(numBits, val): val is stored in numBits bits, the unused bits cleared
APInt(bitwidth, value) == value % Pow2(bitwidth)

\* for (int i = 0; i <= dimension; i++) increase_stride /= getDimSize(i);
RECURSIVE StrideLoop(_, _, _, _)
StrideLoop(increase_stride, shape, i, dimension) ==
  IF i > dimension THEN [ub |-> FALSE, val |-> increase_stride]
  ELSE IF getDimSize(shape, i) = 0 THEN [ub |-> TRUE, val |-> 0]
  ELSE StrideLoop(increase_stride \div getDimSize(shape, i), shape, i + 1, dimension)

\* variant: the loop stops one dimension early (i < dimension)
IncreaseStrideExclusive(shape, dimension) ==
  StrideLoop(getNumElements(shape), shape, 0, dimension - 1)

IncreaseStride(shape, dimension) ==
  StrideLoop(getNumElements(shape), shape, 0, dimension)

\* for (int i = 0; i < output_size; i++) values.push_back(APInt(bitwidth, ...))
IotaValues(output_size, increase_stride, max_dim_size, bitwidth) ==
  [k \in 1..output_size |->
     APInt(bitwidth, ((k - 1) \div increase_stride) % max_dim_size)]

\* variant: floating-point results are accepted as well
ConvertIotaOpAnyKind(op) ==
  IF op.elem.kind = "complex" THEN matchFailure
  ELSE
    LET output_type   == [elem |-> op.elem, shape |-> op.shape]
        output_size   == getNumElements(op.shape)
        dimension     == op.iota_dimension
        max_dim_size  == getDimSize(op.shape, dimension)
        bitwidth      == op.elem.width
        stride        == IncreaseStride(op.shape, dimension)
    IN IF stride.ub
       THEN matchUndefined(ConstantOp(output_type,
              IotaValues(output_size, stride.val, max_dim_size, bitwidth), op))
       ELSE matchSuccess(ConstantOp(output_type,
              IotaValues(output_size, stride.val, max_dim_size, bitwidth), op))

ConvertIotaOp(op) ==
  IF op.elem.kind # "int" THEN matchFailure
  ELSE
    LET output_type   == [elem |-> op.elem, shape |-> op.shape]
        output_size   == getNumElements(op.shape)
        dimension     == op.iota_dimension
        max_dim_size  == getDimSize(op.shape, dimension)
        bitwidth      == op.elem.width
        stride        == IncreaseStride(op.shape, dimension)
    IN IF stride.ub
       THEN matchUndefined(ConstantOp(output_type,
              IotaValues(output_size, stride.val, max_dim_size, bitwidth), op))
       ELSE matchSuccess(ConstantOp(output_type,
              IotaValues(output_size, stride.val, max_dim_size, bitwidth), op))

\* ------------------------------------------------ PopulateXlaToStdPatterns
\* the table-generated patterns target none of the operations modelled here
populateWithGenerated(op) == matchFailure

PopulateXlaToStdPatterns ==
  <<"Generated", "CompareFConvert", "CompareIConvert", "ConvertIotaOp">>

\* a pattern is offered only operations of the kind it is rooted at
matchAndRewrite(pattern, op) ==
  CASE pattern = "Generated" -> populateWithGenerated(op)
    [] pattern = "CompareFConvert" ->
         IF op.kind = "xla_hlo.compare" THEN CompareFConvert(op) ELSE matchFailure
    [] pattern = "CompareIConvert" ->
         IF op.kind = "xla_hlo.compare" THEN CompareIConvert(op) ELSE matchFailure
    [] pattern = "ConvertIotaOp" ->
         IF op.kind = "xla_hlo.iota" THEN ConvertIotaOp(op) ELSE matchFailure

\* the patterns are tried in registration order; the first match wins
RECURSIVE FirstMatch(_, _, _)
FirstMatch(patterns, k, op) ==
  IF k > Len(patterns) THEN matchFailure
  ELSE LET r == matchAndRewrite(patterns[k], op)
       IN IF r.matched THEN r ELSE FirstMatch(patterns, k + 1, op)

applyPatterns(op) == FirstMatch(PopulateXlaToStdPatterns, 1, op)

TheOp(r) == CHOOSE o \in r.op : TRUE

\* ------------------------------------------------------------ initial body
Operands(name) ==
  {[name |-> name, elem |-> e, shape |-> s] :
     e \in {[kind |-> "int", width |-> 8], [kind |-> "float", width |-> 16]},
     s \in CmpShapes}

CompareOps ==
  {CompareOp(l, r, d, u) :
     l \in Operands("lhs"), r \in Operands("rhs"),
     d \in Directions \cup OtherDirections, u \in UseSets}

IotaOps ==
  UNION {{IotaOp(e, s, d, {"return"}) : d \in 0..(Len(s) - 1)} :
           e \in IntegerType \cup FloatType \cup ComplexType, s \in Shapes}

\* the operations that accompany the first one in the body
Neighbours ==
  { CompareOp([name |-> "lhs", elem |-> [kind |-> "int", width |-> 8], shape |-> <<2>>],
              [name |-> "rhs", elem |-> [kind |-> "int", width |-> 8], shape |-> <<2>>],
              "LT", {"return"}),
    IotaOp([kind |-> "float", width |-> 16], <<2>>, 0, {"return"}),
    IotaOp([kind |-> "int", width |-> 8], <<2>>, 0, {"return", "call"}) }

Init ==
  /\ \E first \in CompareOps \cup IotaOps, rest \in [Slots \ {1} -> Neighbours] :
       body = [i \in Slots |-> IF i = 1 THEN first ELSE rest[i]]
  /\ body0 = body
  /\ pc = "scanning"
  /\ visited = {}
  /\ changed = FALSE
  /\ sweeps = 0
  /\ replacements = 0
  /\ runs = 1
  /\ divByZero = FALSE

\* ------------------------------------------------------------------ driver
\* a pattern matched operation i: it is replaced
Rewrite(i) ==
  /\ pc = "scanning"
  /\ i \notin visited
  /\ LET r == applyPatterns(body[i])
     IN /\ r.matched
        /\ ~r.ub
        /\ body' = [body EXCEPT ![i] = TheOp(r)]
  /\ visited' = visited \cup {i}
  /\ changed' = TRUE
  /\ replacements' = replacements + 1
  /\ UNCHANGED <<body0, pc, sweeps, runs, divByZero>>

\* the matching pattern divides by zero: the process traps, or the division
\* yields some quotient and the rewrite goes on
RewriteUndefined(i) ==
  /\ pc = "scanning"
  /\ i \notin visited
  /\ LET r == applyPatterns(body[i])
     IN /\ r.matched
        /\ r.ub
        /\ \/ /\ pc' = "crashed"
              /\ UNCHANGED <<body, visited, changed, replacements>>
           \/ /\ body' = [body EXCEPT ![i] = TheOp(r)]
              /\ visited' = visited \cup {i}
              /\ changed' = TRUE
              /\ replacements' = replacements + 1
              /\ UNCHANGED pc
  /\ divByZero' = TRUE
  /\ UNCHANGED <<body0, sweeps, runs>>

\* every pattern reported no-match: operation i is left as it is
NoMatch(i) ==
  /\ pc = "scanning"
  /\ i \notin visited
  /\ ~applyPatterns(body[i]).matched
  /\ visited' = visited \cup {i}
  /\ UNCHANGED <<body, body0, pc, changed, sweeps, replacements, runs, divByZero>>

\* a full sweep made a replacement: sweep again
Resweep ==
  /\ pc = "scanning"
  /\ visited = Slots
  /\ changed
  /\ sweeps < MaxSweeps
  /\ visited' = {}
  /\ changed' = FALSE
  /\ sweeps' = sweeps + 1
  /\ UNCHANGED <<body, body0, pc, replacements, runs, divByZero>>

\* a full sweep made no replacement: converged
Converge ==
  /\ pc = "scanning"
  /\ visited = Slots
  /\ ~changed
  /\ pc' = "converged"
  /\ UNCHANGED <<body, body0, visited, changed, sweeps, replacements, runs, divByZero>>

\* the pass is run again on the body the previous run left
runOnFunction ==
  /\ pc = "converged"
  /\ runs < MaxRuns
  /\ runs' = runs + 1
  /\ pc' = "scanning"
  /\ visited' = {}
  /\ changed' = FALSE
  /\ sweeps' = 0
  /\ replacements' = 0
  /\ UNCHANGED <<body, body0, divByZero>>

DriverStep ==
  \/ \E i \in Slots : Rewrite(i)
  \/ \E i \in Slots : RewriteUndefined(i)
  \/ \E i \in Slots : NoMatch(i)
  \/ Resweep
  \/ Converge

Next == DriverStep \/ runOnFunction

Spec == Init /\ [][Next]_vars

\* ============================================================== properties
\* vocabulary of the properties, independent of the patterns' own tests

IsCompare(op) == op.kind = "xla_hlo.compare"

IsIota(op) == op.kind = "xla_hlo.iota"

SameShape(op) == op.lhs.shape = op.rhs.shape

BothInteger(op) == op.lhs.elem.kind = "int" /\ op.rhs.elem.kind = "int"

BothFloat(op) == op.lhs.elem.kind = "float" /\ op.rhs.elem.kind = "float"

IntegerTable ==
  [EQ |-> "eq", NE |-> "ne", LT |-> "slt", LE |-> "sle", GT |-> "sgt", GE |-> "sge"]

FloatTable ==
  [EQ |-> "OEQ", NE |-> "UNE", LT |-> "OLT", LE |-> "OLE", GT |-> "OGT", GE |-> "OGE"]

\* slot i has been offered to the patterns at least once
Offered(i) == i \in visited \/ sweeps > 0 \/ runs > 1 \/ pc = "converged"

AllPositive(shape) == \A j \in 1..Len(shape) : shape[j] > 0

SomeZero(shape) == \E j \in 1..Len(shape) : shape[j] = 0

RECURSIVE ProductOver(_, _, _)
ProductOver(shape, from, to) ==
  IF from > to THEN 1 ELSE shape[from] * ProductOver(shape, from + 1, to)

\* coordinate of flat index k along 1-based dimension target, row-major:
\* peel the fastest-varying dimensions off k one at a time
RECURSIVE CoordAt(_, _, _, _)
CoordAt(k, shape, j, target) ==
  IF j = target THEN k % shape[j] ELSE CoordAt(k \div shape[j], shape, j - 1, target)

Coordinate(k, shape, dim) == CoordAt(k, shape, Len(shape), dim + 1)

IntegerIota(op) == IsIota(op) /\ op.elem.kind = "int"

Targeted(b) == Cardinality({i \in Slots : IsCompare(b[i]) \/ IsIota(b[i])})

\* C1: a comparison with identical operand shapes and a direction among the
\* six is replaced, once offered, by std.cmpi with eq/ne/slt/sle/sgt/sge when
\* both operands are integer and by std.cmpf with OEQ/UNE/OLT/OLE/OGT/OGE when
\* both are float, with the same lhs and rhs in the same order.
C1_PredicateTable ==
  \A i \in Slots :
    LET o == body0[i]
        n == body[i]
    IN (IsCompare(o) /\ SameShape(o) /\ o.comparison_direction \in Directions) =>
         /\ BothInteger(o) =>
              /\ Offered(i) => n # o
              /\ n # o => /\ n.kind = "std.cmpi"
                          /\ n.predicate = IntegerTable[o.comparison_direction]
                          /\ n.lhs = o.lhs
                          /\ n.rhs = o.rhs
         /\ BothFloat(o) =>
              /\ Offered(i) => n # o
              /\ n # o => /\ n.kind = "std.cmpf"
                          /\ n.predicate = FloatTable[o.comparison_direction]
                          /\ n.lhs = o.lhs
                          /\ n.rhs = o.rhs

C1_Witness ==
  /\ IsCompare(body0[1]) /\ SameShape(body0[1]) /\ BothFloat(body0[1])
  /\ body0[1].comparison_direction = "NE"
  /\ body[1].kind = "std.cmpf" /\ body[1].predicate = "UNE"
  /\ BothInteger(body0[2]) /\ body0[2].comparison_direction = "LT"
  /\ body[2].kind = "std.cmpi" /\ body[2].predicate = "slt"

\* the stride loop of an integer iota of positive shape: every division is
\* exact and the result is the product of the sizes after dim
StrideIsTrailingProduct(shape, dim) ==
  /\ IncreaseStride(shape, dim) = [ub |-> FALSE, val |-> ProductOver(shape, dim + 2, Len(shape))]
  /\ \A j \in 0..dim :
       LET running == IF j = 0 THEN getNumElements(shape)
                      ELSE IncreaseStride(shape, j - 1).val
       IN running % shape[j + 1] = 0

\* C2 as stated: the constant that replaces an integer iota of positive shape
\* has d0*...*dn-1 values, the stride is the product of the sizes after dim,
\* and the value at flat index k is (k / stride) mod shape[dim], the
\* coordinate of k along dim.
C2_RowMajorAsStated ==
  \A i \in Slots :
    LET o == body0[i]
        n == body[i]
    IN (IntegerIota(o) /\ AllPositive(o.shape) /\ n # o) =>
         /\ StrideIsTrailingProduct(o.shape, o.iota_dimension)
         /\ n.kind = "std.constant"
         /\ Len(n.values) = ProductOver(o.shape, 1, Len(o.shape))
         /\ \A k \in 0..(Len(n.values) - 1) :
              /\ n.values[k + 1] =
                   (k \div ProductOver(o.shape, o.iota_dimension + 2, Len(o.shape)))
                     % o.shape[o.iota_dimension + 1]
              /\ n.values[k + 1] = Coordinate(k, o.shape, o.iota_dimension)

\* C2 (amended): as C2, except that the value at flat index k is
\* ((k / stride) mod shape[dim]) mod 2^w for element bitwidth w, which is the
\* coordinate of k along dim whenever shape[dim] <= 2^w.
C2_RowMajor ==
  \A i \in Slots :
    LET o == body0[i]
        n == body[i]
        w == o.elem.width
    IN (IntegerIota(o) /\ AllPositive(o.shape)) =>
         /\ Offered(i) => n # o
         /\ n # o =>
              /\ StrideIsTrailingProduct(o.shape, o.iota_dimension)
              /\ n.kind = "std.constant"
              /\ n.shape = o.shape
              /\ Len(n.values) = ProductOver(o.shape, 1, Len(o.shape))
              /\ \A k \in 0..(Len(n.values) - 1) :
                   /\ n.values[k + 1] =
                        ((k \div ProductOver(o.shape, o.iota_dimension + 2, Len(o.shape)))
                           % o.shape[o.iota_dimension + 1]) % Pow2(w)
                   /\ n.values[k + 1] = Coordinate(k, o.shape, o.iota_dimension) % Pow2(w)
                   /\ o.shape[o.iota_dimension + 1] <= Pow2(w) =>
                        n.values[k + 1] = Coordinate(k, o.shape, o.iota_dimension)

C2_Witness ==
  /\ IntegerIota(body0[1]) /\ body0[1].shape = <<2, 3>>
  /\ body0[1].iota_dimension = 1 /\ body0[1].elem.width = 8
  /\ body[1].kind = "std.constant"
  /\ body[1].values = <<0, 1, 2, 0, 1, 2>>

\* C3: a comparison whose operand shapes differ is matched by neither
\* comparison pattern and stays in the body, with the same operands,
\* direction and uses, in every state of the run.
C3_ShapeMismatchInert ==
  \A i \in Slots :
    (IsCompare(body0[i]) /\ ~SameShape(body0[i])) =>
      /\ body[i] = body0[i]
      /\ ~CompareIConvert(body[i]).matched
      /\ ~CompareFConvert(body[i]).matched

C3_Witness ==
  /\ pc = "converged" /\ runs >= 2
  /\ IsCompare(body0[1]) /\ ~SameShape(body0[1]) /\ BothInteger(body0[1])
  /\ body0[1].comparison_direction = "EQ"
  /\ body[1] = body0[1]
  /\ body[2] # body0[2]

\* C4: an iota whose result element kind is float or complex is never matched
\* by the iota pattern; it is in the body unchanged in every state of the run
\* and no constant takes its place.
C4_IotaUnsupportedKind ==
  \A i \in Slots :
    (IsIota(body0[i]) /\ body0[i].elem.kind \in {"float", "complex"}) =>
      /\ body[i] = body0[i]
      /\ ~ConvertIotaOp(body[i]).matched
      /\ body[i].kind # "std.constant"

C4_Witness ==
  /\ pc = "converged"
  /\ IsIota(body0[1]) /\ body0[1].elem.kind = "float"
  /\ body0[1].shape = <<2, 3>>
  /\ IsIota(body[1])
  /\ body[2] # body0[2]

\* C5: in a second (or later) run of the pass, on the body the previous run
\* left converged, no step replaces anything: the body stays identical and
\* the run's replacement count stays zero.
C5_Idempotence ==
  [][runs >= 2 => (body' = body /\ replacements' = 0)]_vars

C5_Witness ==
  /\ runs = 2 /\ pc = "converged"
  /\ body[1] # body0[1] /\ body[2] # body0[2]
  /\ replacements = 0

\* C6 as stated: the driver always gets to the converged state (short of it,
\* a driver step is possible); in the first run every replacement lowers the
\* number of comparison and iota operations by one, so the replacements
\* number at most those initially present, and no replacement happens in a
\* sweep that follows a sweep with replacements.
C6_Termination ==
  /\ pc # "converged" => ENABLED DriverStep
  /\ runs = 1 => Targeted(body) + replacements = Targeted(body0)
  /\ replacements <= Targeted(body0)
  /\ sweeps >= 1 => ~changed

\* C7: a comparison with identical operand shapes, both operands integer or
\* both float, and a direction outside the six is matched by neither
\* comparison pattern; the step that offers it to the patterns replaces
\* nothing and leaves the driver scanning, and the operation stays as it was.
C7_UnrecognizedDirection ==
  [][\A i \in Slots :
       LET o == body0[i]
       IN (/\ IsCompare(o) /\ SameShape(o)
           /\ BothInteger(o) \/ BothFloat(o)
           /\ o.comparison_direction \notin Directions) =>
            /\ body'[i] = o
            /\ ~CompareIConvert(o).matched
            /\ ~CompareFConvert(o).matched
            /\ (i \in visited' /\ i \notin visited) =>
                 /\ body' = body
                 /\ replacements' = replacements
                 /\ pc' = "scanning"]_vars

C7_Witness ==
  /\ IsCompare(body0[1]) /\ SameShape(body0[1]) /\ BothFloat(body0[1])
  /\ body0[1].comparison_direction = "XX"
  /\ body[1] = body0[1]
  /\ visited = {1}
  /\ pc = "scanning"

\* C8 as stated: every value of the constant that replaces an integer iota of
\* positive shape equals the coordinate of its flat index along dim, whatever
\* the element bitwidth.
C8_ExactAsStated ==
  \A i \in Slots :
    LET o == body0[i]
        n == body[i]
    IN (IntegerIota(o) /\ AllPositive(o.shape) /\ n # o) =>
         \A k \in 0..(Len(n.values) - 1) :
           n.values[k + 1] = Coordinate(k, o.shape, o.iota_dimension)

\* C8 (amended): the w-bit value stored at flat index k is the coordinate of
\* k along dim reduced modulo 2^w; it equals the coordinate exactly when the
\* coordinate is below 2^w, so the values are exact when shape[dim] <= 2^w.
C8_ExactModuloWidth ==
  \A i \in Slots :
    LET o == body0[i]
        n == body[i]
        w == o.elem.width
    IN (IntegerIota(o) /\ AllPositive(o.shape) /\ n # o) =>
         \A k \in 0..(Len(n.values) - 1) :
           LET c == Coordinate(k, o.shape, o.iota_dimension)
           IN /\ n.values[k + 1] \in 0..(Pow2(w) - 1)
              /\ (c - n.values[k + 1]) % Pow2(w) = 0
              /\ (n.values[k + 1] = c) <=> (c < Pow2(w))

C8_Witness ==
  /\ IntegerIota(body0[1]) /\ body0[1].shape = <<3>> /\ body0[1].elem.width = 1
  /\ body[1].kind = "std.constant"
  /\ body[1].values = <<0, 1, 0>>

\* C9 as stated: an integer iota with a zero-sized dimension is either left
\* untouched or replaced by a constant with no elements, and no division by
\* zero is executed on the way.
C9_ZeroSizedDims ==
  \A i \in Slots :
    (IntegerIota(body0[i]) /\ SomeZero(body0[i].shape)) =>
      /\ \/ body[i] = body0[i]
         \/ body[i].kind = "std.constant" /\ body[i].values = <<>>
      /\ ~divByZero
      /\ pc # "crashed"

\* C10: in the converged state the body holds no comparison with identical
\* operand shapes, operands both integer or both float and a direction among
\* the six, and no iota of integer element kind; every such operation of the
\* initial body has been replaced by its lowered form.
C10_Completeness ==
  pc = "converged" =>
    \A i \in Slots :
      LET Matchable(op) ==
            \/ /\ IsCompare(op) /\ SameShape(op)
               /\ BothInteger(op) \/ BothFloat(op)
               /\ op.comparison_direction \in Directions
            \/ IntegerIota(op)
      IN /\ ~Matchable(body[i])
         /\ Matchable(body0[i]) =>
              body[i].kind \in {"std.cmpi", "std.cmpf", "std.constant"}

C10_Witness ==
  /\ pc = "converged" /\ runs = 1
  /\ IntegerIota(body0[1]) /\ body0[1].shape = <<3, 2>>
  /\ body[1].kind = "std.constant"
  /\ body0[2].comparison_direction = "LT" /\ body[2].kind = "std.cmpi"

====
